---- MODULE Spec2Model ----
(***************************************************************************)
(* Model of files/python/rpa.py: the RPA-3.0 archive reader (RPA.__init__, *)
(* RPA.loadIndex, RPA.buildFileSet), mkdirp and the extraction loop of     *)
(* __main__.                                                               *)
(*                                                                         *)
(* Byte strings and path strings are sequences of one-character strings.   *)
(* The compressed, pickled index block at the end of an archive is the     *)
(* single abstract byte IdxBlock; `pickled` is what it decodes to.         *)
(* The filesystem is a set of directories and a map from file paths to     *)
(* contents, both keyed by absolute paths (sequences of components); the   *)
(* process's working directory, the destination of the extraction, is Cwd. *)
(***************************************************************************)
EXTENDS Integers, Sequences, FiniteSets, TLC

VARIABLES
    dirs,      \* filesystem: the set of existing directories (absolute paths)
    files,     \* filesystem: absolute path of each regular file -> its bytes
    argv1,     \* sys.argv[1]: the archive's path, as typed
    pickled,   \* what the archive's index block unpickles to (the raw index)
    pc,        \* position of the program
    err,       \* the uncaught exception that ended the run, or NoErr
    mm,        \* self.mm: the bytes mapped at open time
    index,     \* self._index: the deobfuscated index
    fileset,   \* self.files: name -> contents, in dict order
    i,         \* position of __main__'s for loop in fileset (1-based)
    path,      \* mkdirp: path.split('/')
    j,         \* mkdirp: the loop's next position in path (1-based)
    d,         \* mkdirp: the directory string built so far
    idx_ofs,   \* loadIndex's local idx_ofs (0 until parsed)
    idx_key,   \* loadIndex's local idx_key (0 until parsed)
    run,       \* which invocation of the program this is
    plain,     \* history: the true (offset, length) the archive was built from
    bkey,      \* history: the key the archive's builder obfuscated them with
    dirs0,     \* history: dirs when the first run started
    files0,    \* history: files when the first run started
    dirs1,     \* history: dirs when the current run started
    files1,    \* history: files when the current run started
    wk         \* parallel extraction: the state of each worker

vars == <<dirs, files, argv1, pickled, pc, err, mm, index, fileset, i, path, j, d,
          idx_ofs, idx_key, run, plain, bkey, dirs0, files0, dirs1, files1, wk>>

----------------------------------------------------------------------------
(* Bounds of the model *)

\* number of data bytes between the header line and the index block
DataLen == 3
\* largest number of entries of an index
MaxMembers == 2
\* largest true (pre-obfuscation) segment length of a generated entry
MaxLen == 2

----------------------------------------------------------------------------
(* Python built-ins *)

Min(a, b) == IF a < b THEN a ELSE b
Max(a, b) == IF a > b THEN a ELSE b

\* Python's clamping of one slice bound k for a sequence of length n
SliceBound(k, n) == IF k < 0 THEN Max(k + n, 0) ELSE Min(k, n)

\* s[a:b], 0-based, negative bounds counted from the end, out-of-range clamped
PySlice(s, a, b) ==
    LET lo == SliceBound(a, Len(s))
        hi == SliceBound(b, Len(s))
    IN  IF lo >= hi THEN <<>> ELSE SubSeq(s, lo + 1, hi)

\* s[a:]
PySliceFrom(s, a) ==
    LET lo == SliceBound(a, Len(s))
    IN  IF lo >= Len(s) THEN <<>> ELSE SubSeq(s, lo + 1, Len(s))

\* startswith that forgets the last character of the prefix
StartsWithShort(s, t) ==
    Len(s) >= Len(t) - 1 /\ SubSeq(s, 1, Len(t) - 1) = SubSeq(t, 1, Len(t) - 1)

\* bytes.startswith
StartsWith(s, t) == Len(s) >= Len(t) /\ SubSeq(s, 1, Len(t)) = t

RECURSIVE FirstNewline(_, _)
FirstNewline(s, k) ==
    IF k > Len(s) THEN Len(s)
    ELSE IF s[k] = "\n" THEN k
    ELSE FirstNewline(s, k + 1)

\* mm.seek(0); mm.readline(): up to and including the first newline
Readline(s) == SubSeq(s, 1, FirstNewline(s, 1))

\* a ^ b on Python integers (two's complement of unbounded width)
RECURSIVE XOR(_, _)
XOR(a, b) ==
    IF a = 0 THEN b
    ELSE IF b = 0 THEN a
    ELSE IF a = -1 THEN -b - 1
    ELSE IF b = -1 THEN -a - 1
    ELSE 2 * XOR(a \div 2, b \div 2) + (((a % 2) + (b % 2)) % 2)

IsSpace(c) == c \in {" ", "\n", "\t", "\r"}

RECURSIVE LStrip(_)
LStrip(s) == IF s # <<>> /\ IsSpace(s[1]) THEN LStrip(Tail(s)) ELSE s

RECURSIVE RStrip(_)
RStrip(s) ==
    IF s # <<>> /\ IsSpace(s[Len(s)]) THEN RStrip(SubSeq(s, 1, Len(s) - 1)) ELSE s

\* value of one base-16 digit, -1 for any other character
HexVal(c) ==
    CASE c = "0" -> 0  [] c = "1" -> 1  [] c = "2" -> 2  [] c = "3" -> 3
      [] c = "4" -> 4  [] c = "5" -> 5  [] c = "6" -> 6  [] c = "7" -> 7
      [] c = "8" -> 8  [] c = "9" -> 9
      [] c \in {"a", "A"} -> 10  [] c \in {"b", "B"} -> 11
      [] c \in {"c", "C"} -> 12  [] c \in {"d", "D"} -> 13
      [] c \in {"e", "E"} -> 14  [] c \in {"f", "F"} -> 15
      [] OTHER -> -1

BadInt == [ok |-> FALSE, val |-> 0]

\* the digits of an integer literal: single underscores only between digits
\* (or right after a base prefix); prev is "start", "prefix", "digit" or "us"
RECURSIVE Digits(_, _, _)
Digits(s, acc, prev) ==
    IF s = <<>> THEN
        IF prev = "digit" THEN [ok |-> TRUE, val |-> acc] ELSE BadInt
    ELSE IF s[1] = "_" THEN
        IF prev \in {"digit", "prefix"} THEN Digits(Tail(s), acc, "us") ELSE BadInt
    ELSE IF HexVal(s[1]) >= 0 THEN
        Digits(Tail(s), acc * 16 + HexVal(s[1]), "digit")
    ELSE BadInt

\* int(s, 16): surrounding whitespace, a sign and a 0x prefix are accepted;
\* ok = FALSE stands for ValueError
PyInt16(s) ==
    LET t   == RStrip(LStrip(s))
        neg == t # <<>> /\ t[1] = "-"
        u   == IF t # <<>> /\ t[1] \in {"+", "-"} THEN Tail(t) ELSE t
        pre == Len(u) >= 2 /\ u[1] = "0" /\ u[2] \in {"x", "X"}
        v   == IF pre THEN Digits(SubSeq(u, 3, Len(u)), 0, "prefix")
               ELSE Digits(u, 0, "start")
    IN  IF v.ok /\ neg THEN [ok |-> TRUE, val |-> -v.val] ELSE v

----------------------------------------------------------------------------
(* os.path *)

RECURSIVE LastSlash(_, _)
\* s.rfind('/') + 1, searched downwards from position k
LastSlash(s, k) ==
    IF k = 0 THEN 0 ELSE IF s[k] = "/" THEN k ELSE LastSlash(s, k - 1)

RECURSIVE RStripSlash(_)
RStripSlash(s) ==
    IF s # <<>> /\ s[Len(s)] = "/" THEN RStripSlash(SubSeq(s, 1, Len(s) - 1)) ELSE s

\* posixpath.dirname
Dirname(p) ==
    LET head == SubSeq(p, 1, LastSlash(p, Len(p)))
    IN  IF head # <<>> /\ RStripSlash(head) # <<>> THEN RStripSlash(head) ELSE head

RECURSIVE SplitFrom(_, _)
\* str.split('/'): the components of s, empty ones included; cur is the
\* component being read
SplitFrom(s, cur) ==
    IF s = <<>> THEN <<cur>>
    ELSE IF s[1] = "/" THEN <<cur>> \o SplitFrom(Tail(s), <<>>)
    ELSE SplitFrom(Tail(s), Append(cur, s[1]))

Split(s) == SplitFrom(s, <<>>)

\* posixpath.join(a, b) for a component b
Join(a, b) ==
    IF b # <<>> /\ b[1] = "/" THEN b
    ELSE IF a = <<>> \/ a[Len(a)] = "/" THEN a \o b
    ELSE a \o <<"/">> \o b

----------------------------------------------------------------------------
(* The filesystem, as the kernel resolves paths *)

\* the working directory of the process: the destination root
Cwd == << <<"r">> >>

Parent(p) == IF p = <<>> THEN <<>> ELSE SubSeq(p, 1, Len(p) - 1)

RECURSIVE NonEmpty(_)
NonEmpty(cs) ==
    IF cs = <<>> THEN <<>>
    ELSE IF Head(cs) = <<>> THEN NonEmpty(Tail(cs))
    ELSE <<Head(cs)>> \o NonEmpty(Tail(cs))

\* the components the kernel walks: repeated and trailing slashes dropped
Comps(s) == NonEmpty(Split(s))

RECURSIVE Walk(_, _, _)
\* follow components cs from directory cur; every directory on the way must
\* exist
Walk(ds, cur, cs) ==
    IF cs = <<>> THEN [ok |-> TRUE, p |-> cur]
    ELSE IF cur \notin ds THEN [ok |-> FALSE, p |-> cur]
    ELSE LET c == Head(cs)
             nxt == IF c = <<".">> THEN cur
                    ELSE IF c = <<".", ".">> THEN Parent(cur)
                    ELSE Append(cur, c)
         IN  Walk(ds, nxt, Tail(cs))

\* the absolute path string s names, if its directories exist
Resolve(ds, s) ==
    IF s = <<>> THEN [ok |-> FALSE, p |-> <<>>]
    ELSE Walk(ds, IF s[1] = "/" THEN <<>> ELSE Cwd, Comps(s))

\* os.path.isdir(s)
IsDir(ds, s) == Resolve(ds, s).ok /\ Resolve(ds, s).p \in ds

\* os.mkdir(s): the exception raised, or "none" and the directory created
Mkdir(ds, fs, s) ==
    LET cs  == Comps(s)
        par == Walk(ds, IF s[1] = "/" THEN <<>> ELSE Cwd,
                    SubSeq(cs, 1, Len(cs) - 1))
        tgt == Append(par.p, cs[Len(cs)])
    IN  IF s = <<>> THEN [exc |-> "FileNotFoundError", dirs |-> ds]
        ELSE IF cs = <<>> THEN [exc |-> "FileExistsError", dirs |-> ds]
        ELSE IF ~par.ok \/ par.p \notin ds THEN
            [exc |-> IF par.p \in DOMAIN fs THEN "NotADirectoryError"
                     ELSE "FileNotFoundError", dirs |-> ds]
        ELSE IF cs[Len(cs)] \in {<<".">>, <<".", ".">>} THEN
            [exc |-> "FileExistsError", dirs |-> ds]
        ELSE IF tgt \in ds \/ tgt \in DOMAIN fs THEN
            [exc |-> "FileExistsError", dirs |-> ds]
        ELSE [exc |-> "none", dirs |-> ds \cup {tgt}]

\* open(s, 'ab'): an existing file is appended to, not truncated
OpenAppend(ds, fs, s, contents) ==
    LET cs  == Comps(s)
        par == Walk(ds, IF s[1] = "/" THEN <<>> ELSE Cwd,
                    SubSeq(cs, 1, Len(cs) - 1))
        tgt == Append(par.p, cs[Len(cs)])
    IN  IF s = <<>> THEN [exc |-> "FileNotFoundError", files |-> fs]
        ELSE IF cs = <<>> THEN [exc |-> "IsADirectoryError", files |-> fs]
        ELSE IF ~par.ok \/ par.p \notin ds THEN
            [exc |-> IF par.p \in DOMAIN fs THEN "NotADirectoryError"
                     ELSE "FileNotFoundError", files |-> fs]
        ELSE IF cs[Len(cs)] \in {<<".">>, <<".", ".">>} THEN
            [exc |-> "IsADirectoryError", files |-> fs]
        ELSE IF tgt \in ds \/ s[Len(s)] = "/" THEN
            [exc |-> "IsADirectoryError", files |-> fs]
        ELSE [exc |-> "none",
              files |-> [q \in DOMAIN fs \cup {tgt} |->
                            IF q # tgt THEN fs[q]
                            ELSE IF tgt \in DOMAIN fs THEN fs[tgt] \o contents
                            ELSE contents]]

\* open(s, 'wb') followed by f.write(contents): the exception raised, or
\* "none" and the file created or truncated and written
OpenWrite(ds, fs, s, contents) ==
    LET cs  == Comps(s)
        par == Walk(ds, IF s[1] = "/" THEN <<>> ELSE Cwd,
                    SubSeq(cs, 1, Len(cs) - 1))
        tgt == Append(par.p, cs[Len(cs)])
    IN  IF s = <<>> THEN [exc |-> "FileNotFoundError", files |-> fs]
        ELSE IF cs = <<>> THEN [exc |-> "IsADirectoryError", files |-> fs]
        ELSE IF ~par.ok \/ par.p \notin ds THEN
            [exc |-> IF par.p \in DOMAIN fs THEN "NotADirectoryError"
                     ELSE "FileNotFoundError", files |-> fs]
        ELSE IF cs[Len(cs)] \in {<<".">>, <<".", ".">>} THEN
            [exc |-> "IsADirectoryError", files |-> fs]
        ELSE IF tgt \in ds \/ s[Len(s)] = "/" THEN
            [exc |-> "IsADirectoryError", files |-> fs]
        ELSE [exc |-> "none",
              files |-> [q \in DOMAIN fs \cup {tgt} |->
                            IF q = tgt THEN contents ELSE fs[q]]]

----------------------------------------------------------------------------
(* The program *)

NoErr == [type |-> "none", line |-> 0]

\* the header's magic
Tag == <<"R", "P", "A", "-", "3", ".", "0", " ">>

\* the compressed, pickled index, as one abstract byte
IdxBlock == "Z"

\* zlib.decompress and pickle.loads accept the bytes: they start with the
\* index block (zlib.decompress ignores what follows a complete stream)
Decodable(blob) == blob # <<>> /\ blob[1] = IdxBlock

\* the asserts without the one on the list's length: the first tuple is taken
BlockOkFirstOnly(v) == Len(v) >= 1 /\ v[1].n \in {2, 3}

\* the asserts of loadIndex on one block v: a list of one 2- or 3-tuple
BlockOk(v) == Len(v) = 1 /\ v[1].n \in {2, 3}

\* a decoder that forgets to XOR the length
DeobfuscateOffsetOnly(t, key) ==
    [n     |-> 3,
     ofs   |-> XOR(t.ofs, key),
     dlen  |-> t.dlen,
     start |-> IF t.n = 2 THEN <<>> ELSE t.start]

\* loadIndex, lines 68-73: the tuple that replaces v[0]
Deobfuscate(t, key) ==
    [n     |-> 3,
     ofs   |-> XOR(t.ofs, key),
     dlen  |-> XOR(t.dlen, key),
     start |-> IF t.n = 2 THEN <<>> ELSE t.start]

\* the least member of a non-empty set of positions, 0 for the empty set
First(K) == IF K = {} THEN 0 ELSE CHOOSE k \in K : \A m \in K : k <= m

\* buildFileSet's assert on one entry of the index: not start
StartEmpty(e) == e.segs[1].start = <<>>

\* a slice that takes the length for the end: self.mm[ofs:dlen]
ContentsEndIsLength(m, t) == PySlice(m, t.ofs, t.dlen)

\* buildFileSet, line 83: self.mm[ofs:ofs+dlen]
Contents(m, t) == PySlice(m, t.ofs, t.ofs + t.dlen)

Fail(type, line) ==
    /\ pc' = "failed"
    /\ err' = [type |-> type, line |-> line]

\* RPA.__init__, lines 46-48: open the archive and map it
Open ==
    /\ pc = "open"
    /\ LET r == Resolve(dirs, argv1)
       IN  IF r.ok /\ r.p \in dirs THEN
               Fail("IsADirectoryError", 47) /\ UNCHANGED mm
           ELSE IF ~r.ok \/ r.p \notin DOMAIN files THEN
               Fail("FileNotFoundError", 47) /\ UNCHANGED mm
           ELSE IF files[r.p] = <<>> THEN
               \* mmap refuses an empty file
               Fail("ValueError", 48) /\ UNCHANGED mm
           ELSE /\ mm' = files[r.p]
                /\ pc' = "loadIndex"
                /\ UNCHANGED err
    /\ UNCHANGED <<dirs, files, argv1, pickled, index, fileset, i, path, j, d,
                   idx_ofs, idx_key, run, plain, bkey, dirs0, files0, dirs1, files1, wk>>

\* RPA.loadIndex
LoadIndex ==
    /\ pc = "loadIndex"
    /\ LET header == Readline(mm)
           o      == PyInt16(PySlice(header, 8, 24))
           k      == PyInt16(PySlice(header, 25, 33))
           blocks == [n \in 1..Len(pickled) |-> pickled[n].segs]
           bad    == First({n \in 1..Len(blocks) : ~BlockOk(blocks[n])})
       IN  IF ~StartsWith(header, Tag) THEN
               Fail("AssertionError", 55) /\ UNCHANGED <<index, idx_ofs, idx_key>>
           ELSE IF ~o.ok THEN
               Fail("ValueError", 57) /\ UNCHANGED <<index, idx_ofs, idx_key>>
           ELSE IF ~k.ok THEN
               /\ Fail("ValueError", 58)
               /\ idx_ofs' = o.val
               /\ UNCHANGED <<index, idx_key>>
           ELSE /\ idx_ofs' = o.val
                /\ idx_key' = k.val
                /\ IF ~Decodable(PySliceFrom(mm, o.val)) THEN
                       Fail("zlib.error", 61) /\ UNCHANGED index
                   ELSE IF bad # 0 THEN
                       /\ Fail("AssertionError",
                               IF Len(blocks[bad]) # 1 THEN 65 ELSE 66)
                       /\ UNCHANGED index
                   ELSE /\ index' = [n \in 1..Len(pickled) |->
                                        [name |-> pickled[n].name,
                                         segs |-> <<Deobfuscate(pickled[n].segs[1],
                                                                k.val)>>]]
                        /\ pc' = "buildFileSet"
                        /\ UNCHANGED err
    /\ UNCHANGED <<dirs, files, argv1, pickled, mm, fileset, i, path, j, d,
                   run, plain, bkey, dirs0, files0, dirs1, files1, wk>>

\* RPA.buildFileSet, then __main__ reaches its for loop
BuildFileSet ==
    /\ pc = "buildFileSet"
    /\ LET bad == First({n \in 1..Len(index) : ~StartEmpty(index[n])})
       IN  IF bad # 0 THEN
               Fail("AssertionError", 82) /\ UNCHANGED <<fileset, i>>
           ELSE /\ fileset' = [n \in 1..Len(index) |->
                                  [name     |-> index[n].name,
                                   contents |-> Contents(mm, index[n].segs[1])]]
                /\ i' = 1
                /\ pc' = "for"
                /\ UNCHANGED err
    /\ UNCHANGED <<dirs, files, argv1, pickled, mm, index, path, j, d,
                   idx_ofs, idx_key, run, plain, bkey, dirs0, files0, dirs1, files1, wk>>

\* __main__, lines 102-104: the next member, and mkdirp up to its loop
ForNext ==
    /\ pc = "for"
    /\ IF i > Len(fileset) THEN
           pc' = "done" /\ UNCHANGED <<path, j, d>>
       ELSE LET p == Dirname(fileset[i].name)
            IN  IF Len(p) = 0 THEN
                    pc' = "write" /\ UNCHANGED <<path, j, d>>
                ELSE /\ path' = Split(p)
                     /\ d' = <<>>
                     /\ j' = 1
                     /\ pc' = "mkdirp"
    /\ UNCHANGED <<dirs, files, argv1, pickled, err, mm, index, fileset, i,
                   idx_ofs, idx_key, run, plain, bkey, dirs0, files0, dirs1, files1, wk>>

\* mkdirp, lines 93-96: one iteration of the loop
MkdirpStep ==
    /\ pc = "mkdirp"
    /\ LET nd == Join(d, path[j])
           r  == Mkdir(dirs, files, nd)
       IN  /\ d' = nd
           /\ IF IsDir(dirs, nd) THEN
                  /\ UNCHANGED <<dirs, err>>
                  /\ j' = j + 1
                  /\ pc' = IF j + 1 > Len(path) THEN "write" ELSE "mkdirp"
              ELSE IF r.exc # "none" THEN
                  Fail(r.exc, 96) /\ UNCHANGED <<dirs, j>>
              ELSE /\ dirs' = r.dirs
                   /\ j' = j + 1
                   /\ pc' = IF j + 1 > Len(path) THEN "write" ELSE "mkdirp"
                   /\ UNCHANGED err
    /\ UNCHANGED <<files, argv1, pickled, mm, index, fileset, i, path,
                   idx_ofs, idx_key, run, plain, bkey, dirs0, files0, dirs1, files1, wk>>

\* __main__, lines 105-106: write the member
WriteFile ==
    /\ pc = "write"
    /\ LET r == OpenWrite(dirs, files, fileset[i].name, fileset[i].contents)
       IN  IF r.exc # "none" THEN
               Fail(r.exc, 105) /\ UNCHANGED <<files, i>>
           ELSE /\ files' = r.files
                /\ i' = i + 1
                /\ pc' = "for"
                /\ UNCHANGED err
    /\ UNCHANGED <<dirs, argv1, pickled, mm, index, fileset, path, j, d,
                   idx_ofs, idx_key, run, plain, bkey, dirs0, files0, dirs1, files1, wk>>

\* the program is run a second time on the same arguments in the same directory
Rerun ==
    /\ pc = "done"
    /\ run = 1
    /\ run' = run + 1
    /\ pc' = "open"
    /\ mm' = <<>>
    /\ index' = <<>>
    /\ fileset' = <<>>
    /\ i' = 0
    /\ path' = <<>>
    /\ j' = 0
    /\ d' = <<>>
    /\ idx_ofs' = 0
    /\ idx_key' = 0
    /\ dirs1' = dirs
    /\ files1' = files
    /\ UNCHANGED <<dirs, files, argv1, pickled, err, plain, bkey, dirs0, files0, wk>>

----------------------------------------------------------------------------
(* Archives and initial states *)

HexChars == <<"0", "1", "2", "3", "4", "5", "6", "7",
              "8", "9", "a", "b", "c", "d", "e", "f">>

\* the n-digit lowercase hexadecimal numeral of v >= 0, as an archive's
\* builder writes it
RECURSIVE Hex(_, _)
Hex(v, n) == IF n = 0 THEN <<>> ELSE Hex(v \div 16, n - 1) \o <<HexChars[(v % 16) + 1]>>

\* a header line: magic, offset field, separating character, key field
Header(tag, off, sep, key) == tag \o off \o <<sep>> \o key \o <<"\n">>

\* the archive's member data
Data == [k \in 1..DataLen |-> <<"h", "e", "l", "p">>[((k - 1) % 4) + 1]]

\* an archive: header line, data, index block
Archive(hdr) == hdr \o Data \o <<IdxBlock>>

\* the offset of the first data byte and of the index block behind a header
DataAt(hdr) == Len(hdr)
IndexAt(hdr) == Len(hdr) + DataLen

\* the keys of well-formed headers; the first is the one of the format's
\* documentation
Keys == {439041101, 0, 3}

\* the length of a header line with its newline
HdrLen == Len(Header(Tag, Hex(0, 16), " ", Hex(0, 8)))

\* offset fields: the index block's offset, an offset beyond the end of the
\* file, and fields that are not 16 hexadecimal digits
OffFields ==
    {Hex(HdrLen + DataLen, 16), Hex(256, 16),
     Hex(0, 15) \o <<"g">>,
     <<"-">> \o Hex(1, 15),
     <<"0", "x">> \o Hex(HdrLen + DataLen, 14),
     <<"0", "_">> \o Hex(HdrLen + DataLen, 14),
     <<" ">> \o Hex(HdrLen + DataLen, 15)}

\* key fields: 8 hexadecimal digits, and fields that are not
KeyFields ==
    {Hex(k, 8) : k \in Keys} \cup
    {<<"0", "0", "0", "0", "0", "0", "1", "F">>,
     <<"-">> \o Hex(1, 7),
     <<"+">> \o Hex(6, 7),
     <<" ">> \o Hex(2, 7),
     <<"0", "x">> \o Hex(4, 6),
     <<"0", "_">> \o Hex(5, 6),
     Hex(0, 7) \o <<"_">>,
     Hex(0, 7) \o <<"g">>,
     <<" ", " ", " ", " ", " ", " ", " ", " ">>}

\* first lines that do not start with the magic
BadTags ==
    {<<"R", "P", "A", "-", "2", ".", "0", " ">>,
     <<"R", "P", "A", "-", "3", ".", "0", "_">>,
     <<"r", "p", "a", "-", "3", ".", "0", " ">>,
     <<" ", "R", "P", "A", "-", "3", ".", "0">>}

\* every first line the model opens
Headers ==
    {Header(Tag, o, sp, k) : o \in OffFields, sp \in {" ", "_"}, k \in KeyFields}
    \cup {Header(t, Hex(HdrLen + DataLen, 16), " ", Hex(3, 8)) : t \in BadTags}
    \cup {\* a line cut short: no key field
          Tag \o <<"1", "0", "0", "\n">>,
          \* a line cut short inside the magic
          <<"R", "P", "A", "\n">>,
          \* trailing content after the key
          Tag \o Hex(HdrLen + 2 + DataLen, 16) \o <<" ">> \o Hex(3, 8)
              \o <<" ", "#", "\n">>}

\* the well-formed header for key k
GoodHeader(k) == Header(Tag, Hex(HdrLen + DataLen, 16), " ", Hex(k, 8))

\* the key a builder that wrote header hdr obfuscated with: the one its key
\* field reads as, 0 when it reads as none
KeyOf(hdr) == PyInt16(PySlice(Readline(hdr), 25, 33)).val

\* member names
nX    == <<"x">>
nA    == <<"a">>
nG    == <<"g">>
nAX   == <<"a", "/", "x">>
nAY   == <<"a", "/", "y">>
nABX  == <<"a", "/", "b", "/", "x">>
nEsc  == <<".", ".", "/", "e">>
nDotX == <<".", "/", "x">>
nAUpX == <<"a", "/", ".", ".", "/", "x">>
nAbsX == <<"/", "x">>

TreeNames == {nX, nA, nG, nAX, nABX, nEsc, nDotX, nAUpX, nAbsX}

\* the shapes of an index block
ValidShapes == {"t2", "t3"}
BadShapes == {"t3p", "two", "none", "t4"}

\* the block a builder pickles for a member of true offset ofs and length
\* dlen, in shape sh, obfuscated with key k; a 2-tuple has no start
Absent == <<"?">>

Tuple(n, ofs, dlen, start, k) ==
    [n |-> n, ofs |-> XOR(ofs, k), dlen |-> XOR(dlen, k), start |-> start]

Block(sh, ofs, dlen, k) ==
    CASE sh = "t2"   -> <<Tuple(2, ofs, dlen, Absent, k)>>
      [] sh = "t3"   -> <<Tuple(3, ofs, dlen, <<>>, k)>>
      [] sh = "t3p"  -> <<Tuple(3, ofs, dlen, <<"p">>, k)>>
      [] sh = "t4"   -> <<Tuple(4, ofs, dlen, <<>>, k)>>
      [] sh = "two"  -> <<Tuple(2, ofs, dlen, Absent, k), Tuple(2, ofs, dlen, Absent, k)>>
      [] sh = "none" -> <<>>

\* sequences of at most n members of S
SeqsUpTo(S, n) == UNION {[1..k -> S] : k \in 0..n}

\* member lists: dict keys are distinct
Members(S) ==
    {ms \in SeqsUpTo(S, MaxMembers) :
        \A a, b \in 1..Len(ms) : a # b => ms[a].name # ms[b].name}

Pickle(ms, k) ==
    [n \in 1..Len(ms) |->
        [name |-> ms[n].name, segs |-> Block(ms[n].sh, ms[n].ofs, ms[n].dlen, k)]]

\* what the destination holds before the first run
PreDirs(pre) == IF pre = "dirA" THEN {Cwd \o <<nA>>} ELSE {}
PreFiles(pre) ==
    CASE pre = "fileA" -> (Cwd \o <<nA>> :> <<"o", "l", "d">>)
      [] pre = "fileX" -> (Cwd \o <<nX>> :> <<"o", "l", "d">>)
      [] OTHER -> <<>>

\* the absolute path of the archive typed as ap
ArchiveAt(ap) == Resolve({<<>>, Cwd}, ap).p

InitFs(hdr, ms, k, ap, pre) ==
    /\ dirs = {<<>>, Cwd} \cup PreDirs(pre)
    /\ files = (ArchiveAt(ap) :> Archive(hdr)) @@ PreFiles(pre)
    /\ argv1 = ap
    /\ pickled = Pickle(ms, k)
    /\ plain = ms
    /\ bkey = k
    /\ err = NoErr
    /\ i = 0
    /\ path = <<>>
    /\ j = 0
    /\ d = <<>>
    /\ run = 1
    /\ dirs0 = dirs
    /\ files0 = files
    /\ dirs1 = dirs
    /\ files1 = files

\* the program is about to start
InitWith(hdr, ms, k, ap, pre) ==
    /\ InitFs(hdr, ms, k, ap, pre)
    /\ pc = "open"
    /\ mm = <<>>
    /\ index = <<>>
    /\ fileset = <<>>
    /\ idx_ofs = 0
    /\ idx_key = 0
    /\ wk = <<>>

\* every header, one member
InitHeaders ==
    \E hdr \in Headers :
        InitWith(hdr, <<[name |-> nX, sh |-> "t2", ofs |-> DataAt(hdr), dlen |-> MaxLen]>>,
                 KeyOf(hdr), nG, "empty")

\* every shape of index, offset and length, under a few keys: offsets in the
\* data, at the index block, beyond the end of the file, and a negative one;
\* the builder's key is the header's, or 0 (values stored in the clear)
InitIndexes ==
    \E hdr \in {GoodHeader(k) : k \in Keys} :
    \E k \in {KeyOf(hdr), 0} :
    \E ms \in Members(
            [name : {nX, nAY}, sh : ValidShapes,
             ofs : {-2, DataAt(hdr), IndexAt(hdr), IndexAt(hdr) + 2}, dlen : 0..MaxLen]
            \cup [name : {nX, nAY}, sh : BadShapes, ofs : {DataAt(hdr)}, dlen : {1}]) :
        InitWith(hdr, ms, k, nG, "empty")

\* every member name, archive place and destination content
InitTrees ==
    \E hdr \in {GoodHeader(439041101)} :
    \E ms \in Members(
            [name : TreeNames, sh : {"t2"}, ofs : {DataAt(hdr)}, dlen : {MaxLen}]
            \cup [name : TreeNames, sh : {"t2"}, ofs : {DataAt(hdr) + 1}, dlen : {0}]) :
    \E sc \in {<<nG, "empty">>, <<nG, "dirA">>, <<nG, "fileA">>, <<nG, "fileX">>,
                <<nEsc, "empty">>} :
        InitWith(hdr, ms, KeyOf(hdr), sc[1], sc[2])

Init == InitHeaders \/ InitIndexes \/ InitTrees

Next ==
    \/ Open
    \/ LoadIndex
    \/ BuildFileSet
    \/ ForNext
    \/ MkdirpStep
    \/ WriteFile
    \/ Rerun

Spec == Init /\ [][Next]_vars

----------------------------------------------------------------------------
(* Parallel extraction: one worker per member, each running lines 104-106 *)
(* (mkdirp, then the write) on its own member; a worker's steps are the    *)
(* system calls of mkdirp's loop, which other workers' steps interleave.   *)

\* what no worker touches
ParFrame ==
    UNCHANGED <<argv1, pickled, pc, err, mm, index, fileset, i, path, j, d,
                idx_ofs, idx_key, run, plain, bkey, dirs0, files0, dirs1, files1>>

\* the worker's loop position moved past path[j]
Advance(w) ==
    [w EXCEPT !.j = w.j + 1,
              !.pc = IF w.j + 1 > Len(w.path) THEN "write" ELSE "check"]

\* lines 104 and 88-91: os.path.dirname, the early return, the split
WEnter(n) ==
    /\ ParFrame
    /\ wk[n].pc = "enter"
    /\ LET p == Dirname(fileset[n].name)
       IN  wk' = [wk EXCEPT ![n] =
                    IF Len(p) = 0 THEN [@ EXCEPT !.pc = "write"]
                    ELSE [@ EXCEPT !.path = Split(p), !.d = <<>>, !.j = 1,
                                   !.pc = "check"]]
    /\ UNCHANGED <<dirs, files>>

\* lines 94-95: os.path.join and the os.path.isdir test
WCheck(n) ==
    /\ ParFrame
    /\ wk[n].pc = "check"
    /\ LET nd == Join(wk[n].d, wk[n].path[wk[n].j])
       IN  wk' = [wk EXCEPT ![n] =
                    IF IsDir(dirs, nd) THEN Advance([@ EXCEPT !.d = nd])
                    ELSE [@ EXCEPT !.d = nd, !.pc = "mkdir"]]
    /\ UNCHANGED <<dirs, files>>

\* line 96: os.mkdir
WMkdir(n) ==
    /\ ParFrame
    /\ wk[n].pc = "mkdir"
    /\ LET r == Mkdir(dirs, files, wk[n].d)
       IN  IF r.exc # "none" THEN
               /\ wk' = [wk EXCEPT ![n] = [@ EXCEPT !.pc = "failed", !.exc = r.exc]]
               /\ UNCHANGED dirs
           ELSE /\ dirs' = r.dirs
                /\ wk' = [wk EXCEPT ![n] = Advance(@)]
    /\ UNCHANGED files

\* lines 105-106: write the member
WWrite(n) ==
    /\ ParFrame
    /\ wk[n].pc = "write"
    /\ LET r == OpenWrite(dirs, files, fileset[n].name, fileset[n].contents)
       IN  IF r.exc # "none" THEN
               /\ wk' = [wk EXCEPT ![n] = [@ EXCEPT !.pc = "failed", !.exc = r.exc]]
               /\ UNCHANGED files
           ELSE /\ files' = r.files
                /\ wk' = [wk EXCEPT ![n] = [@ EXCEPT !.pc = "done"]]
    /\ UNCHANGED dirs

\* members under shared parent directories
nABY == <<"a", "/", "b", "/", "y">>
SiblingNames == {nAX, nAY, nABX, nABY}

\* the table is built; the destination is empty; every member has a worker
InitPar ==
    \E ms \in Members([name : SiblingNames, sh : {"t2"},
                       ofs : {HdrLen}, dlen : {MaxLen}]) :
        /\ Len(ms) >= 1
        /\ InitFs(GoodHeader(3), ms, 3, nG, "empty")
        /\ pc = "parallel"
        /\ mm = Archive(GoodHeader(3))
        /\ idx_ofs = HdrLen + DataLen
        /\ idx_key = 3
        /\ index = [n \in 1..Len(ms) |->
                      [name |-> ms[n].name,
                       segs |-> <<Deobfuscate(Pickle(ms, 3)[n].segs[1], 3)>>]]
        /\ fileset = [n \in 1..Len(ms) |->
                        [name     |-> ms[n].name,
                         contents |-> Contents(mm, index[n].segs[1])]]
        /\ wk = [n \in 1..Len(ms) |->
                   [pc |-> "enter", path |-> <<>>, j |-> 0, d |-> <<>>, exc |-> "none"]]

NextPar ==
    \/ \E n \in DOMAIN wk : WEnter(n)
    \/ \E n \in DOMAIN wk : WCheck(n)
    \/ \E n \in DOMAIN wk : WMkdir(n)
    \/ \E n \in DOMAIN wk : WWrite(n)

SpecPar == InitPar /\ [][NextPar]_vars

----------------------------------------------------------------------------
(* Vocabulary of the properties *)

\* the archive's bytes when the current run started, and its first line
ArchiveBytes == files1[ArchiveAt(argv1)]
FirstLine == Readline(ArchiveBytes)

\* a line starts with the eight characters "RPA-3.0 "
HasMagic(line) ==
    /\ Len(line) >= 8
    /\ <<line[1], line[2], line[3], line[4], line[5], line[6], line[7], line[8]>>
           = <<"R", "P", "A", "-", "3", ".", "0", " ">>

\* the run has not changed the filesystem
NothingWritten == dirs = dirs1 /\ files = files1

\* the construction of RPA is behind the program
Constructed == pc \in {"for", "mkdirp", "write", "done"}

\* the kinds of failure
FormatError ==
    pc = "failed" /\ err \in {[type |-> "AssertionError", line |-> 55],
                              [type |-> "ValueError", line |-> 57],
                              [type |-> "ValueError", line |-> 58]}
StructuralViolation ==
    pc = "failed" /\ err.type = "AssertionError" /\ err.line \in {65, 66, 80, 82}

\* the archive's first line has the magic and two fields int() accepts, and
\* the bytes from the offset it names on are the index block
HeaderReads ==
    /\ ArchiveBytes # <<>>
    /\ HasMagic(FirstLine)
    /\ PyInt16(PySlice(FirstLine, 8, 24)).ok
    /\ PyInt16(PySlice(FirstLine, 25, 33)).ok
    /\ Decodable(PySliceFrom(ArchiveBytes, PyInt16(PySlice(FirstLine, 8, 24)).val))

\* an absolute path lies in the destination root
Inside(p) == Len(p) >= Len(Cwd) /\ SubSeq(p, 1, Len(Cwd)) = Cwd

\* cs followed from cur by name alone
RECURSIVE Lexical(_, _)
Lexical(cur, cs) ==
    IF cs = <<>> THEN cur
    ELSE Lexical(IF Head(cs) = <<".">> THEN cur
                 ELSE IF Head(cs) = <<".", ".">> THEN Parent(cur)
                 ELSE Append(cur, Head(cs)),
                 Tail(cs))

\* a member name joined to the destination root as a relative path
OutputPath(name) == Lexical(Cwd, Comps(name))

\* the run has changed nothing outside the destination root
OutsideUntouched ==
    /\ \A q \in dirs \cup dirs1 : ~Inside(q) => (q \in dirs /\ q \in dirs1)
    /\ \A q \in DOMAIN files \cup DOMAIN files1 :
          ~Inside(q) => /\ q \in DOMAIN files /\ q \in DOMAIN files1
                        /\ files[q] = files1[q]

\* a raw block that does not hold exactly one segment, or whose segment
\* carries a non-empty prefix
Violates(v) == Len(v) # 1 \/ (v[1].n = 3 /\ v[1].start # <<>>)

\* bit k of an integer in two's complement
Bit(v, k) == (v \div (2 ^ k)) % 2

\* r is the bitwise exclusive or of a and b
IsXorOf(r, a, b) ==
    /\ \A k \in 0..30 : Bit(r, k) = (Bit(a, k) + Bit(b, k)) % 2
    /\ (r < 0) <=> ((a < 0) # (b < 0))

\* the bytes of m at the positions of [ofs, ofs + dlen) that lie in [0, Len(m))
InRangePart(m, ofs, dlen) ==
    LET P == {q \in 0..(Len(m) - 1) : ofs <= q /\ q < ofs + dlen}
    IN  [k \in 1..Cardinality(P) |-> m[First(P) + k]]

----------------------------------------------------------------------------
(* C2 *)

\* C2: when the archive's first line does not start with the magic
\* "RPA-3.0 ", the run never gets past loadIndex's header check: it fails
\* there with the error of line 55 (or, the archive being empty, already at
\* line 48, where mmap refuses it), the index is never read (no key, no
\* offset, no decoded index), and the run creates no directory and writes no
\* file.
C2_BadMagicAbortsBeforeIndex ==
    ~HasMagic(FirstLine) =>
        /\ pc \in {"open", "loadIndex", "failed"}
        /\ pc = "failed" =>
               \/ err = [type |-> "AssertionError", line |-> 55]
               \/ ArchiveBytes = <<>> /\ err = [type |-> "ValueError", line |-> 48]
        /\ index = <<>> /\ fileset = <<>> /\ idx_ofs = 0 /\ idx_key = 0
        /\ NothingWritten

C2_Witness ==
    /\ run = 1
    /\ ~HasMagic(FirstLine)
    /\ Len(FirstLine) >= 8
    /\ FormatError
    /\ err.line = 55

----------------------------------------------------------------------------
(* C3 *)

\* C3: when some entry of the index does not hold exactly one segment, or
\* holds a segment with a non-empty prefix, the run never reaches the
\* extraction loop and writes nothing, also when valid members precede the
\* offending entry; once the header and the index block have been read, the
\* failure is the structural one (an assert of loadIndex or buildFileSet).
C3_StructuralViolationAbortsRun ==
    (\E n \in 1..Len(pickled) : Violates(pickled[n].segs)) =>
        /\ ~Constructed
        /\ NothingWritten
        /\ (pc = "failed" /\ HeaderReads) => StructuralViolation

C3_Witness ==
    /\ StructuralViolation
    /\ Len(pickled) = 2
    /\ ~Violates(pickled[1].segs)
    /\ pickled[1].segs[1].n \in {2, 3}
    /\ Violates(pickled[2].segs)

----------------------------------------------------------------------------
(* C4 *)

\* C4: once loadIndex has returned, every entry's segment has offset = stored
\* offset XOR key and length = stored length XOR key (bit by bit), so that
\* values a builder obfuscated with the same key are recovered exactly; the
\* prefix is untouched by the key: empty for a 2-tuple, the stored one for a
\* 3-tuple.
C4_DeobfuscationIsXor ==
    (pc \in {"buildFileSet", "for", "mkdirp", "write", "done"}) =>
        /\ Len(index) = Len(pickled)
        /\ \A n \in 1..Len(index) :
            LET t == pickled[n].segs[1]
                u == index[n].segs[1]
            IN  /\ Len(index[n].segs) = 1
                /\ index[n].name = pickled[n].name
                /\ IsXorOf(u.ofs, t.ofs, idx_key)
                /\ IsXorOf(u.dlen, t.dlen, idx_key)
                /\ idx_key = bkey => (u.ofs = plain[n].ofs /\ u.dlen = plain[n].dlen)
                /\ t.n = 2 => u.start = <<>>
                /\ t.n = 3 => u.start = t.start

C4_Witness ==
    /\ pc = "buildFileSet"
    /\ idx_key = 439041101
    /\ idx_key = bkey
    /\ Len(index) = 2
    /\ pickled[1].segs[1].n = 2
    /\ pickled[2].segs[1].n = 3
    /\ index[2].segs[1].start # <<>>
    /\ index[1].segs[1].ofs # pickled[1].segs[1].ofs

----------------------------------------------------------------------------
(* C10 *)

\* C10 as stated: buildFileSet never fails because of a segment's range, and
\* the bytes stored for every member are the part of [offset, offset+length)
\* inside the archive, min(length, max(0, S - offset)) of them.
C10_AsStated ==
    /\ (pc = "failed" /\ err.line \in 77..84) =>
           \E n \in 1..Len(index) : index[n].segs[1].start # <<>>
    /\ \A n \in 1..Len(fileset) :
           LET u == index[n].segs[1]
           IN  /\ fileset[n].contents = InRangePart(mm, u.ofs, u.dlen)
               /\ Len(fileset[n].contents) = Min(u.dlen, Max(0, Len(mm) - u.ofs))

\* C10, amended: buildFileSet never fails because of a segment's range, and
\* for every member whose deobfuscated offset and length are not negative the
\* bytes stored are the part of [offset, offset+length) inside the archive,
\* min(length, max(0, S - offset)) of them.
C10_NonNegativeSliceClamped ==
    /\ (pc = "failed" /\ err.line \in 77..84) =>
           \E n \in 1..Len(index) : index[n].segs[1].start # <<>>
    /\ \A n \in 1..Len(fileset) :
           LET u == index[n].segs[1]
           IN  (u.ofs >= 0 /\ u.dlen >= 0) =>
                 /\ fileset[n].contents = InRangePart(mm, u.ofs, u.dlen)
                 /\ Len(fileset[n].contents) = Min(u.dlen, Max(0, Len(mm) - u.ofs))

C10_Witness ==
    /\ pc = "for"
    /\ \E n \in 1..Len(fileset) :
           LET u == index[n].segs[1]
           IN  /\ u.ofs >= 0 /\ u.ofs < Len(mm) /\ u.ofs + u.dlen > Len(mm)
               /\ Len(fileset[n].contents) > 0
               /\ Len(fileset[n].contents) < u.dlen
    /\ \E n \in 1..Len(fileset) :
           index[n].segs[1].ofs > Len(mm) /\ fileset[n].contents = <<>>

----------------------------------------------------------------------------
(* C5 *)

\* every segment lies in the archive, and no two member names are the same
\* output path
WellFormed ==
    /\ \A n \in 1..Len(index) :
           LET u == index[n].segs[1]
           IN  u.ofs >= 0 /\ u.dlen >= 0 /\ u.ofs + u.dlen <= Len(mm)
    /\ \A a, b \in 1..Len(index) :
           a # b => OutputPath(index[a].name) # OutputPath(index[b].name)

\* C5: when the extraction of a well-formed archive has finished, every
\* member n with deobfuscated segment (offset, length) is a regular file at
\* <root>/n holding exactly the archive's bytes [offset, offset+length), an
\* empty file when length is 0.
C5_ExtractedBytes ==
    (pc = "done" /\ WellFormed) =>
        \A n \in 1..Len(index) :
            LET u == index[n].segs[1]
                q == OutputPath(index[n].name)
            IN  /\ q \in DOMAIN files
                /\ q \notin dirs
                /\ files[q] = [k \in 1..u.dlen |-> mm[u.ofs + k]]

C5_Witness ==
    /\ pc = "done"
    /\ run = 1
    /\ WellFormed
    /\ Cwd \o <<nX>> \in DOMAIN files0
    /\ \E a, b \in 1..Len(index) :
          /\ index[a].name = nX
          /\ index[a].segs[1].dlen = 0
          /\ index[b].segs[1].dlen > 0
          /\ Len(Dirname(index[b].name)) > 0

----------------------------------------------------------------------------
(* C1 *)

\* C1: when a member name, joined to the destination root, lies outside it,
\* the extraction does not finish and the run creates no directory and
\* writes no file outside the destination root.
C1_EscapingNameRejected ==
    (\E n \in 1..Len(fileset) : ~Inside(OutputPath(fileset[n].name))) =>
        /\ pc # "done"
        /\ OutsideUntouched

----------------------------------------------------------------------------
(* C7 *)

\* C7: the archive's bytes never change: at every point of a run they are
\* the bytes the archive had when the run started.
C7_ArchiveNeverModified ==
    /\ ArchiveAt(argv1) \in DOMAIN files
    /\ files[ArchiveAt(argv1)] = ArchiveBytes

----------------------------------------------------------------------------
(* C8 *)

\* C8: a second run on the same archive and destination, after a first run
\* that finished, finishes too and leaves every directory and every file as
\* the first run left them.
C8_SecondRunIdempotent ==
    (run = 2 /\ pc \in {"done", "failed"}) =>
        /\ pc = "done"
        /\ dirs = dirs1
        /\ files = files1

\* the second run is idempotent whenever the first run left the archive as
\* it was: C8 fails only where C7 does
C8_IdempotentWhileArchiveIntact ==
    (run = 2 /\ files1[ArchiveAt(argv1)] = files0[ArchiveAt(argv1)]) =>
        /\ pc # "failed"
        /\ dirs = dirs1
        /\ pc = "done" => files = files1

----------------------------------------------------------------------------
(* C6 *)

\* a field of exactly n hexadecimal digits, and the number it writes
IsHexField(f, n) == Len(f) = n /\ \A k \in 1..Len(f) : HexVal(f[k]) >= 0

RECURSIVE HexValue(_)
HexValue(f) ==
    IF f = <<>> THEN 0
    ELSE 16 * HexValue(SubSeq(f, 1, Len(f) - 1)) + HexVal(f[Len(f)])

\* C6: behind the magic, when positions 8..23 are 16 hexadecimal digits and
\* positions 25..32 are 8, loadIndex reads the index offset and the key as
\* their values; when either field is not hexadecimal digits, the run fails
\* with the format error of line 57 or 58.
C6_HeaderFields ==
    LET off == PySlice(FirstLine, 8, 24)
        key == PySlice(FirstLine, 25, 33)
    IN  (HasMagic(FirstLine) /\ pc \notin {"open", "loadIndex"}) =>
            IF IsHexField(off, 16) /\ IsHexField(key, 8)
            THEN ~FormatError /\ idx_ofs = HexValue(off) /\ idx_key = HexValue(key)
            ELSE FormatError

\* the part of C6 the code keeps: fields of hexadecimal digits are read as
\* their values, and a field int() rejects ends the run at line 57 or 58
C6_HexFieldsRead ==
    LET off == PySlice(FirstLine, 8, 24)
        key == PySlice(FirstLine, 25, 33)
    IN  (HasMagic(FirstLine) /\ pc \notin {"open", "loadIndex"}) =>
            /\ (IsHexField(off, 16) /\ IsHexField(key, 8)) =>
                   ~FormatError /\ idx_ofs = HexValue(off) /\ idx_key = HexValue(key)
            /\ (\E k \in 1..Len(off) : off[k] = "g") => FormatError
            /\ (\E k \in 1..Len(key) : key[k] = "g") => FormatError

----------------------------------------------------------------------------
(* C9 *)

\* a worker that runs alone never fails: the failures of C9 come from the
\* interleaving
C9_SingleWorkerNeverFails ==
    Len(wk) = 1 => wk[1].exc = "none"

\* C9: with one worker per member, members under shared parent directories
\* and an empty destination, no worker's mkdirp or write raises, in any
\* interleaving of the workers' steps, and no two workers write the same
\* output path.
C9_ParallelMkdirpNeverFails ==
    /\ \A n \in DOMAIN wk : wk[n].exc = "none"
    /\ \A a, b \in DOMAIN wk :
          a # b => OutputPath(fileset[a].name) # OutputPath(fileset[b].name)

====
